---- MODULE Spec2Model ----
(***************************************************************************)
(* metabase.http-client: the test/REPL API client.  `client` sniffs its    *)
(* positional arguments, `-client` validates them, authenticates when      *)
(* credentials are given (a nested `client` call), builds the URL, issues  *)
(* the request, checks the status code and deserializes the body.          *)
(***************************************************************************)
EXTENDS Integers, Sequences, FiniteSets, TLC

VARIABLES stack, cur, sent, recv, toks, result, out, calls, authRequests, credCalls, credRejected,
          bu_in, bu_out

vars == <<stack, cur, sent, recv, toks, result, out, calls, authRequests, credCalls, credRejected,
          bu_in, bu_out>>

clientVars == <<stack, cur, sent, recv, toks, result, out, calls, authRequests, credCalls, credRejected>>

(***************************************************************************)
(* Bounds                                                                  *)
(***************************************************************************)
\* top-level calls of `client` made by all callers together
MaxCalls == 3
\* depth of nested `-client` frames a thread may hold before the stack overflows
MaxDepth == 3
\* entries of a query-parameter map handed to build-url
MaxParams == 2

Threads == {"t1", "t2"}

(***************************************************************************)
(* Clojure values: nil, keywords, strings, integers, maps (entries in seq  *)
(* order).  A response body is a string, kept as its sequence of JSON      *)
(* lexemes so that reading it is a real parse.                             *)
(***************************************************************************)
Nil == [t |-> "nil"]
Kw(s) == [t |-> "kw", v |-> s]
Str(s) == [t |-> "str", v |-> s]
Num(n) == [t |-> "int", v |-> n]
Map(es) == [t |-> "map", v |-> es]
Text(ts) == [t |-> "text", v |-> ts]

IsMap(x) == x.t = "map"
IsInteger(x) == x.t = "int"
IsString(x) == x.t \in {"str", "text"}
IsKeyword(x) == x.t = "kw"

RECURSIVE Lookup(_, _)
Lookup(es, k) ==
  IF es = <<>> THEN Nil
  ELSE IF es[1][1] = k THEN es[1][2] ELSE Lookup(Tail(es), k)

\* (get m k), (:k m): nil on anything that is not a map
Get(m, k) == IF IsMap(m) THEN Lookup(m.v, k) ELSE Nil

RECURSIVE Assoc(_, _, _)
Assoc(es, k, v) ==
  IF es = <<>> THEN << <<k, v>> >>
  ELSE IF es[1][1] = k THEN << <<k, v>> >> \o Tail(es)
  ELSE <<es[1]>> \o Assoc(Tail(es), k, v)

First(s) == IF s = <<>> THEN Nil ELSE Head(s)
Rest(s) == IF s = <<>> THEN <<>> ELSE Tail(s)

\* (name x) of a keyword, (str x) of anything
str(x) ==
  CASE x.t = "nil" -> ""
    [] x.t = "str" -> x.v
    [] x.t = "int" -> ToString(x.v)
    [] x.t = "kw" -> ":" \o x.v
    [] OTHER -> "?"

name(x) == Str(x.v)

RECURSIVE apply_str(_)
apply_str(xs) == IF xs = <<>> THEN "" ELSE str(Head(xs)) \o apply_str(Tail(xs))

RECURSIVE interpose(_, _)
interpose(sep, xs) ==
  IF Len(xs) <= 1 THEN xs ELSE <<Head(xs), sep>> \o interpose(sep, Tail(xs))

(***************************************************************************)
(* build-url                                                               *)
(***************************************************************************)
url_prefix == "http://localhost:3000/api/"

\* the pairs with only the keys turned into their names
RECURSIVE MapNames_keys_only(_)
MapNames_keys_only(es) ==
  IF es = <<>> THEN <<>>
  ELSE << << (IF IsKeyword(es[1][1]) THEN name(es[1][1]) ELSE es[1][1]), es[1][2] >> >>
         \o MapNames_keys_only(Tail(es))

RECURSIVE MapNames(_)
MapNames(es) ==
  IF es = <<>> THEN <<>>
  ELSE LET k == es[1][1]
           v == es[1][2]
       IN << << (IF IsKeyword(k) THEN name(k) ELSE k),
                (IF IsKeyword(v) THEN name(v) ELSE v) >> >> \o MapNames(Tail(es))

RECURSIVE MapPairStr(_)
MapPairStr(ps) ==
  IF ps = <<>> THEN <<>>
  ELSE <<Str(apply_str(interpose(Str("="), Head(ps))))>> \o MapPairStr(Tail(ps))

empty(m) == m = Nil \/ m.v = <<>>

build_url(prefix, url, url_param_kwargs) ==
  prefix \o str(url) \o
    (IF ~empty(url_param_kwargs)
       THEN "?" \o apply_str(interpose(Str("&"), MapPairStr(MapNames(url_param_kwargs.v))))
       ELSE "")

(***************************************************************************)
(* clojure.data.json: write-str and read-str over JSON lexemes, and        *)
(* clojure.walk/keywordize-keys                                            *)
(***************************************************************************)
Lex(k, s) == [k |-> k, s |-> s]
P(s) == Lex("p", s)
S(s) == Lex("s", s)
N(n) == Lex("n", n)
W(s) == Lex("w", s)
IsP(tok, s) == tok.k = "p" /\ tok.s = s

RECURSIVE write_str(_), write_members(_)
write_str(x) ==
  CASE x.t = "nil" -> <<W("null")>>
    [] x.t = "int" -> <<N(x.v)>>
    [] x.t = "str" -> <<S(x.v)>>
    [] x.t = "kw" -> <<S(x.v)>>
    [] x.t = "map" -> <<P("{")>> \o write_members(x.v) \o <<P("}")>>

write_members(es) ==
  IF es = <<>> THEN <<>>
  ELSE <<S(es[1][1].v), P(":")>> \o write_str(es[1][2])
         \o (IF Len(es) > 1 THEN <<P(",")>> ELSE <<>>)
         \o write_members(Tail(es))

ReadOk(v, rest) == [ok |-> TRUE, val |-> v, rest |-> rest]
ReadFail == [ok |-> FALSE, val |-> Nil, rest |-> <<>>]

RECURSIVE read_value(_), read_members(_, _)
read_value(ts) ==
  IF ts = <<>> THEN ReadFail
  ELSE LET h == Head(ts) IN
    CASE h.k = "n" -> ReadOk(Num(h.s), Tail(ts))
      [] h.k = "s" -> ReadOk(Str(h.s), Tail(ts))
      [] h.k = "w" -> IF h.s = "null" THEN ReadOk(Nil, Tail(ts)) ELSE ReadFail
      [] h.k = "p" ->
           IF ~IsP(h, "{") THEN ReadFail
           ELSE IF Len(ts) >= 2 /\ IsP(ts[2], "}") THEN ReadOk(Map(<<>>), Tail(Tail(ts)))
           ELSE read_members(Tail(ts), <<>>)

read_members(ts, acc) ==
  IF Len(ts) < 2 \/ ts[1].k # "s" \/ ~IsP(ts[2], ":") THEN ReadFail
  ELSE LET r == read_value(SubSeq(ts, 3, Len(ts))) IN
    IF ~r.ok \/ r.rest = <<>> THEN ReadFail
    ELSE LET acc2 == Assoc(acc, Str(ts[1].s), r.val) IN
      IF IsP(Head(r.rest), ",") THEN read_members(Tail(r.rest), acc2)
      ELSE IF IsP(Head(r.rest), "}") THEN ReadOk(Map(acc2), Tail(r.rest))
      ELSE ReadFail

\* (json/read-str s): throws on nil and on text that does not start a JSON value
read_str(body) == IF body.t # "text" THEN ReadFail ELSE read_value(body.v)

\* the parsed structure left with its string keys
keywordize_keys_skipped(x) == x

RECURSIVE keywordize_keys(_), keywordize_entries(_)
keywordize_keys(x) == IF IsMap(x) THEN Map(keywordize_entries(x.v)) ELSE x

keywordize_entries(es) ==
  IF es = <<>> THEN <<>>
  ELSE << << (IF es[1][1].t = "str" THEN Kw(es[1][1].v) ELSE es[1][1]),
             keywordize_keys(es[1][2]) >> >> \o keywordize_entries(Tail(es))

\* the body handed back as it came
deserialize_never(body) == body

\* (try (-> body json/read-str keywordize-keys) (catch Exception _ body))
deserialize(body) ==
  LET r == read_str(body) IN IF r.ok THEN keywordize_keys(r.val) ELSE body

(***************************************************************************)
(* client: the optional positional arguments                               *)
(***************************************************************************)
\* (pred? x) for the two predicates client passes
Holds(pred, x) ==
  CASE pred = "map?" -> IsMap(x)
    [] pred = "integer?" -> IsInteger(x)

\* (u/optional pred? args): the first argument if it satisfies pred?, and the rest
optional(pred, args) ==
  IF Holds(pred, First(args)) THEN <<First(args), Rest(args)>> ELSE <<Nil, args>>

RECURSIVE kwargs_map(_, _)
kwargs_map(kvs, acc) ==
  IF Len(kvs) < 2 THEN acc ELSE kwargs_map(Tail(Tail(kvs)), Assoc(acc, kvs[1], kvs[2]))

client(args) ==
  LET o1 == optional("map?", args)
      o2 == optional("integer?", Rest(o1[2]))
      o3 == optional("map?", Rest(o2[2]))
  IN [credentials |-> o1[1],
      method |-> First(o1[2]),
      expected_status |-> o2[1],
      url |-> First(o2[2]),
      http_body |-> o3[1],
      url_param_kwargs |-> IF o3[2] = <<>> THEN Nil ELSE Map(kwargs_map(o3[2], <<>>))]

(***************************************************************************)
(* -client                                                                 *)
(***************************************************************************)
Methods == {Kw("get"), Kw("post"), Kw("put"), Kw("delete")}

\* the validation without the check of the method
client_pre_any_method(a) ==
  /\ (a.credentials = Nil \/ IsMap(a.credentials))
  /\ (a.expected_status = Nil \/ IsInteger(a.expected_status))
  /\ IsString(a.url)
  /\ (a.http_body = Nil \/ IsMap(a.http_body))
  /\ (a.url_param_kwargs = Nil \/ IsMap(a.url_param_kwargs))

client_pre(a) ==
  /\ (a.credentials = Nil \/ IsMap(a.credentials))
  /\ a.method \in Methods
  /\ (a.expected_status = Nil \/ IsInteger(a.expected_status))
  /\ IsString(a.url)
  /\ (a.http_body = Nil \/ IsMap(a.http_body))
  /\ (a.url_param_kwargs = Nil \/ IsMap(a.url_param_kwargs))

request_fn(method) ==
  CASE method = Kw("get") -> "client/get"
    [] method = Kw("post") -> "client/post"
    [] method = Kw("put") -> "client/put"
    [] method = Kw("delete") -> "client/delete"

toUpperCase(s) ==
  CASE s = "get" -> "GET"
    [] s = "post" -> "POST"
    [] s = "put" -> "PUT"
    [] s = "delete" -> "DELETE"
    [] OTHER -> s

\* the request of a call without credentials sent with a token some call obtained before
request_shared_token(a, token) ==
  LET known == { toks[u][1] : u \in { w \in DOMAIN toks : toks[w] # <<>> } } \ {Nil}
  IN [fn |-> request_fn(a.method),
      url |-> build_url(url_prefix, a.url, a.url_param_kwargs),
      content_type |-> "json",
      accept |-> "json",
      session |-> IF a.credentials # Nil THEN token
                  ELSE IF known # {} THEN CHOOSE x \in known : TRUE ELSE Nil,
      body |-> Text(write_str(a.http_body))]

\* the request-map with the request function and URL it is handed to;
\* token is what (authenticate credentials) returned
request(a, token) ==
  [fn |-> request_fn(a.method),
   url |-> build_url(url_prefix, a.url, a.url_param_kwargs),
   content_type |-> "json",
   accept |-> "json",
   session |-> IF a.credentials # Nil THEN token ELSE Nil,
   body |-> Text(write_str(a.http_body))]

Returned(v, lines) == [raised |-> "none", message |-> "", value |-> v, out |-> lines]
Raised(what, msg, lines) == [raised |-> what, message |-> msg, value |-> Nil, out |-> lines]

format(method_name, url, expected_status, status) ==
  method_name \o " " \o url \o " expected a status code of " \o str(expected_status)
    \o ", got " \o (IF status = Nil THEN "null" ELSE str(status))

\* -client with the status checked only for a request that threw
client_finish_caught_only(a, url, o) ==
  LET method_name == toUpperCase(name(a.method).v)
      caught == o.kind = "ExceptionInfo"
      resp == IF caught THEN Get(o.data, Kw("object")) ELSE o.data
      status == Get(resp, Kw("status"))
      body == Get(resp, Kw("body"))
      lines == (IF caught THEN << <<Str(method_name), Str(url)>> >> ELSE <<>>)
                 \o << <<Str(method_name), Str(url), status>> >>
  IN IF o.kind = "IOException" THEN Raised("IOException", "", <<>>)
     ELSE IF caught /\ a.expected_status # Nil /\ status # a.expected_status
       THEN Raised("Exception", format(method_name, url, a.expected_status, status),
                   lines \o << <<body>> >>)
       ELSE Returned(deserialize(body), lines)

\* -client from the request on: o is what request-fn did
client_finish(a, url, o) ==
  LET method_name == toUpperCase(name(a.method).v)
      caught == o.kind = "ExceptionInfo"
      resp == IF caught THEN Get(o.data, Kw("object")) ELSE o.data
      status == Get(resp, Kw("status"))
      body == Get(resp, Kw("body"))
      lines == (IF caught THEN << <<Str(method_name), Str(url)>> >> ELSE <<>>)
                 \o << <<Str(method_name), Str(url), status>> >>
  IN IF o.kind = "IOException" THEN Raised("IOException", "", <<>>)
     ELSE IF a.expected_status # Nil /\ status # a.expected_status
       THEN Raised("Exception", format(method_name, url, a.expected_status, status),
                   lines \o << <<body>> >>)
       ELSE Returned(deserialize(body), lines)

(***************************************************************************)
(* authenticate                                                            *)
(***************************************************************************)
\* the precondition on the email alone
authenticate_pre_email_only(credentials) == IsString(Get(credentials, Kw("email")))

authenticate_pre(credentials) ==
  /\ IsString(Get(credentials, Kw("email")))
  /\ IsString(Get(credentials, Kw("password")))

\* the sub-call handed the credentials as credentials too
authenticate_args_with_credentials(credentials) ==
  <<credentials, Kw("post"), Num(200), Str("session"), credentials>>

authenticate_args(credentials) == <<Kw("post"), Num(200), Str("session"), credentials>>

\* what authenticate returns when its client call ended with fin, and what it prints
authenticate_result(credentials, fin) ==
  IF fin.raised = "none"
    THEN [token |-> Get(fin.value, Kw("id")), out |-> <<>>]
    ELSE [token |-> Nil,
          out |-> << <<Str("Failed to authenticate with email:"), Get(credentials, Kw("email")),
                       Str("and password:"), Get(credentials, Kw("password")),
                       Str(". Does user exist?")>> >>]

(***************************************************************************)
(* The call stack of one thread.  A frame is one activation of -client;    *)
(* a frame above another is the client call made by authenticate.          *)
(***************************************************************************)
NoResult == [raised |-> "pending", message |-> "", value |-> Nil]

Fresh == [stack |-> <<>>, sent |-> <<>>, toks |-> <<>>, out |-> <<>>, result |-> NoResult]

Local(t) == [stack |-> stack[t], sent |-> sent[t], toks |-> toks[t], out |-> out[t],
             result |-> result[t]]

\* a catch that lets everything but the status-mismatch Exception through
IsException_mismatch_only(fin) == fin.raised = "Exception"

\* (catch Exception e ...): Errors pass through
IsException(fin) == fin.raised \in {"Exception", "IOException", "IllegalArgumentException"}

\* the top frame picks request-fn, builds the URL and hands the request to request-fn;
\* a frame that ends with fin returns into authenticate in the frame below it, if any
RECURSIVE send(_, _), unwind(_, _)
send(L, token) ==
  LET n == Len(L.stack)
      a == L.stack[n].a
  IN IF a.method \notin Methods
       THEN unwind(L, Raised("IllegalArgumentException", "No matching clause", <<>>))
       ELSE [L EXCEPT !.stack[n].url = request(a, token).url,
                      !.sent = Append(@, [depth |-> n, req |-> request(a, token)])]

unwind(L, fin) ==
  LET n == Len(L.stack)
      L1 == [L EXCEPT !.stack = SubSeq(@, 1, n - 1), !.out = @ \o fin.out]
  IN IF n = 1
       THEN [L1 EXCEPT !.result = [raised |-> fin.raised, message |-> fin.message,
                                   value |-> fin.value]]
       ELSE IF fin.raised = "none" \/ IsException(fin)
         THEN LET r == authenticate_result(L.stack[n - 1].a.credentials, fin)
              IN send([L1 EXCEPT !.out = @ \o r.out, !.toks = Append(@, r.token)], r.token)
         ELSE unwind(L1, [fin EXCEPT !.out = <<>>])

\* -client is entered with arguments a
RECURSIVE invoke(_, _)
invoke(L, a) ==
  LET L1 == [L EXCEPT !.stack = Append(@, [a |-> a, url |-> ""])]
  IN IF Len(L1.stack) > MaxDepth THEN unwind(L1, Raised("StackOverflowError", "", <<>>))
     ELSE IF ~client_pre(a) THEN unwind(L1, Raised("AssertionError", "", <<>>))
     ELSE IF a.credentials # Nil
       THEN IF ~authenticate_pre(a.credentials)
              THEN unwind(L1, Raised("AssertionError", "", <<>>))
              ELSE invoke(L1, client(authenticate_args(a.credentials)))
       ELSE send(L1, Nil)

RECURSIVE CountAuth(_)
CountAuth(reqs) ==
  IF reqs = <<>> THEN 0
  ELSE (IF Head(reqs).depth > 1 THEN 1 ELSE 0) + CountAuth(Tail(reqs))

(***************************************************************************)
(* The callers' arguments and what the transport can do with a request     *)
(***************************************************************************)
Entry(k, v) == <<k, v>>
GoodCreds == Map(<<Entry(Kw("email"), Str("a@b.c")), Entry(Kw("password"), Str("pw"))>>)
EmptyCreds == Map(<<Entry(Kw("email"), Str("")), Entry(Kw("password"), Str("pw"))>>)
NoPasswordCreds == Map(<<Entry(Kw("email"), Str("a@b.c"))>>)
NumberCreds == Map(<<Entry(Kw("email"), Num(5)), Entry(Kw("password"), Str("pw"))>>)
CardBody == Map(<<Entry(Kw("name"), Str("My Card"))>>)

CallArgs ==
  { <<Kw("get"), Num(200), Str("card/1")>>,
    <<Kw("get"), Str("card"), Kw("org"), Num(1)>>,
    <<Kw("post"), Str("card"), CardBody>>,
    <<Kw("post"), Num(200), Str("card"), CardBody>>,
    <<Kw("delete"), Num(401), Str("card/1")>>,
    <<Kw("patch"), Str("card")>>,
    <<GoodCreds, Kw("get"), Num(200), Str("card/1")>>,
    <<GoodCreds, Kw("put"), Str("card/1"), CardBody, Kw("f"), Kw("all")>>,
    <<GoodCreds, Kw("patch"), Num(200), Str("card")>>,
    <<EmptyCreds, Kw("get"), Str("card")>>,
    <<NoPasswordCreds, Kw("delete"), Num(200), Str("card/1")>>,
    <<NumberCreds, Kw("get"), Str("card")>> }

TokABody == Text(<<P("{"), S("id"), P(":"), S("tokA"), P("}")>>)
CardJson == Text(<<P("{"), S("id"), P(":"), N(1), P(","), S("name"), P(":"), S("My Card"), P("}")>>)
NotJson == Text(<<W("oops")>>)
Truncated == Text(<<P("{"), S("id"), P(":")>>)
ErrorJson == Text(<<P("{"), S("message"), P(":"), S("Unauthenticated"), P("}")>>)

Response(status, body) == Map(<<Entry(Kw("status"), Num(status)), Entry(Kw("body"), body)>>)

Outcomes ==
  { [kind |-> "response", data |-> Response(200, b)] : b \in {TokABody, CardJson, NotJson} }
  \cup { [kind |-> "response", data |-> Response(204, Nil)] }
  \cup { [kind |-> "ExceptionInfo", data |-> Map(<<Entry(Kw("object"), Response(401, b))>>)] :
           b \in {ErrorJson, Truncated} }
  \cup { [kind |-> "ExceptionInfo", data |-> Map(<<>>)],
         [kind |-> "IOException", data |-> Nil] }

(***************************************************************************)
(* Actions                                                                 *)
(***************************************************************************)
NoArgs == client(<<>>)

Init ==
  /\ stack = [t \in Threads |-> <<>>]
  /\ cur = [t \in Threads |-> NoArgs]
  /\ sent = [t \in Threads |-> <<>>]
  /\ recv = [t \in Threads |-> <<>>]
  /\ toks = [t \in Threads |-> <<>>]
  /\ result = [t \in Threads |-> NoResult]
  /\ out = [t \in Threads |-> <<>>]
  /\ calls = 0
  /\ authRequests = 0
  /\ credCalls = 0
  /\ credRejected = 0
  /\ bu_in = [prefix |-> url_prefix, url |-> Str(""), params |-> Nil]
  /\ bu_out = ""

Store(t, L) ==
  /\ stack' = [stack EXCEPT ![t] = L.stack]
  /\ sent' = [sent EXCEPT ![t] = L.sent]
  /\ toks' = [toks EXCEPT ![t] = L.toks]
  /\ out' = [out EXCEPT ![t] = L.out]
  /\ result' = [result EXCEPT ![t] = L.result]

\* a caller thread evaluates (client & args)
Call(t, args) ==
  /\ stack[t] = <<>>
  /\ calls < MaxCalls
  /\ LET a == client(args)
         L == invoke(Fresh, a)
     IN /\ Store(t, L)
        /\ cur' = [cur EXCEPT ![t] = a]
        /\ recv' = [recv EXCEPT ![t] = <<>>]
        /\ calls' = calls + 1
        /\ credCalls' = credCalls + (IF a.credentials # Nil THEN 1 ELSE 0)
        /\ authRequests' = authRequests + CountAuth(L.sent)
        /\ credRejected' = credRejected + (IF a.credentials # Nil /\ L.result.raised = "AssertionError"
                                              THEN 1 ELSE 0)
  /\ UNCHANGED <<bu_in, bu_out>>

\* request-fn returns or throws in the thread's top frame
Respond(t, o) ==
  /\ stack[t] # <<>>
  /\ LET top == stack[t][Len(stack[t])]
         L == unwind(Local(t), client_finish(top.a, top.url, o))
     IN /\ Store(t, L)
        /\ recv' = [recv EXCEPT ![t] = Append(@, o)]
        /\ authRequests' = authRequests + CountAuth(L.sent) - CountAuth(sent[t])
  /\ UNCHANGED <<cur, calls, credCalls, credRejected, bu_in, bu_out>>

\* one caller, calling again and again
Next ==
  \/ \E args \in CallArgs : Call("t1", args)
  \/ \E o \in Outcomes : Respond("t1", o)

Spec == Init /\ [][Next]_vars

\* two callers at once, without coordination
ConcCallArgs ==
  { <<Kw("get"), Str("card"), Kw("org"), Num(1)>>,
    <<GoodCreds, Kw("get"), Num(200), Str("card/1")>>,
    <<GoodCreds, Kw("patch"), Num(200), Str("card")>>,
    <<NumberCreds, Kw("get"), Str("card")>> }

ConcOutcomes ==
  { o \in Outcomes : o.kind = "IOException" \/ Get(o.data, Kw("body")) \in {TokABody, CardJson}
                       \/ Get(o.data, Kw("object")) # Nil }

ConcNext ==
  \/ \E t \in Threads, args \in ConcCallArgs : Call(t, args)
  \/ \E t \in Threads, o \in ConcOutcomes : Respond(t, o)

ConcSpec == Init /\ [][ConcNext]_vars

(***************************************************************************)
(* build-url on its own: the inputs are drawn, the function is applied     *)
(***************************************************************************)
Prefixes == {url_prefix, "https://mb.example/api/"}
Paths == {Str("card"), Str("card/1/favorite")}
ParamKeys == {Kw("org"), Kw("f"), Str("q")}
ParamVals == {Num(1), Kw("all"), Str("a b"), Str("x&y=z")}

RECURSIVE ParamSeqs(_)
ParamSeqs(n) ==
  IF n = 0 THEN {<<>>}
  ELSE LET shorter == ParamSeqs(n - 1)
       IN shorter \cup { Append(es, Entry(k, v)) :
                           es \in { e \in shorter : Len(e) = n - 1 }, k \in ParamKeys, v \in ParamVals }

DistinctKeys(es) == \A i, j \in 1..Len(es) : i # j => es[i][1] # es[j][1]

ParamMaps == {Nil} \cup { Map(es) : es \in { e \in ParamSeqs(MaxParams) : DistinctKeys(e) } }

UrlInit ==
  /\ stack = [t \in Threads |-> <<>>]
  /\ cur = [t \in Threads |-> NoArgs]
  /\ sent = [t \in Threads |-> <<>>]
  /\ recv = [t \in Threads |-> <<>>]
  /\ toks = [t \in Threads |-> <<>>]
  /\ result = [t \in Threads |-> NoResult]
  /\ out = [t \in Threads |-> <<>>]
  /\ calls = 0
  /\ authRequests = 0
  /\ credCalls = 0
  /\ credRejected = 0
  /\ bu_in \in [prefix : Prefixes, url : Paths, params : ParamMaps]
  /\ bu_out = ""

BuildUrl ==
  /\ bu_out = ""
  /\ bu_out' = build_url(bu_in.prefix, bu_in.url, bu_in.params)
  /\ UNCHANGED <<bu_in, clientVars>>

UrlSpec == UrlInit /\ [][BuildUrl]_vars

(***************************************************************************)
(* Reading a state: the call a thread made last, its requests in the order *)
(* they were issued, and what the transport did with each                  *)
(***************************************************************************)
Called(t) == cur[t] # NoArgs
Done(t) == Called(t) /\ stack[t] = <<>>
HasCreds(t) == cur[t].credentials # Nil
ValidMethod(t) == cur[t].method \in {Kw("get"), Kw("post"), Kw("put"), Kw("delete")}
Email(t) == Get(cur[t].credentials, Kw("email"))
Password(t) == Get(cur[t].credentials, Kw("password"))
ValidCall(t) ==
  /\ Called(t)
  /\ ValidMethod(t)
  /\ HasCreds(t) => Email(t).t = "str" /\ Password(t).t = "str"
MainIdx(t) == IF HasCreds(t) THEN 2 ELSE 1
MainAnswered(t) == ValidCall(t) /\ Len(recv[t]) = MainIdx(t)
MainOutcome(t) == recv[t][MainIdx(t)]
MainRequest(t) == sent[t][MainIdx(t)].req
AuthAnswered(t) == ValidCall(t) /\ HasCreds(t) /\ Len(recv[t]) >= 1
PayloadOf(o) ==
  CASE o.kind = "response" -> o.data
    [] o.kind = "ExceptionInfo" -> Get(o.data, Kw("object"))
    [] OTHER -> Nil
StatusOf(o) == Get(PayloadOf(o), Kw("status"))
BodyOf(o) == Get(PayloadOf(o), Kw("body"))
UpperName == [get |-> "GET", post |-> "POST", put |-> "PUT", delete |-> "DELETE"]
MethodFn == [get |-> "client/get", post |-> "client/post", put |-> "client/put",
             delete |-> "client/delete"]
MismatchMessage(method, url, expected, status) ==
  UpperName[method.v] \o " " \o url \o " expected a status code of " \o ToString(expected.v)
    \o ", got " \o ToString(status.v)
AuthFailureLine(credentials) ==
  <<Str("Failed to authenticate with email:"), Get(credentials, Kw("email")),
    Str("and password:"), Get(credentials, Kw("password")), Str(". Does user exist?")>>
Printed(t, line) == \E i \in 1..Len(out[t]) : out[t][i] = line
\* what each JSON body of the model stands for; any other body stands for itself
ParsedJson(b) ==
  CASE b = TokABody -> Map(<<Entry(Kw("id"), Str("tokA"))>>)
    [] b = CardJson -> Map(<<Entry(Kw("id"), Num(1)), Entry(Kw("name"), Str("My Card"))>>)
    [] b = ErrorJson -> Map(<<Entry(Kw("message"), Str("Unauthenticated"))>>)
    [] OTHER -> b
IsMainRequest(t, r) ==
  /\ r.depth = 1
  /\ r.req.fn = MethodFn[cur[t].method.v]
IsAuthRequest(t, r) ==
  /\ r.depth = 2
  /\ r.req.fn = "client/post"
  /\ r.req.url = url_prefix \o "session"
  /\ r.req.session = Nil
  /\ r.req.body.v = <<P("{"), S("email"), P(":"), S(Email(t).v), P(","),
                      S("password"), P(":"), S(Password(t).v), P("}")>>
\* the thread's call ended in the contract violation before any request
Rejected(t) ==
  /\ stack[t] = <<>>
  /\ result[t].raised = "AssertionError"
  /\ sent[t] = <<>>
  /\ recv[t] = <<>>
\* the authentication sub-call did not yield a token
AuthFailed(o) ==
  ~(StatusOf(o) = Num(200) /\ Get(ParsedJson(BodyOf(o)), Kw("id")) # Nil)
\* authenticate returned nil, the main request went out without a token, and the
\* call ends as -client ends on the main request's outcome
AuthDegrades(t) ==
  /\ toks[t] = <<Nil>>
  /\ Len(sent[t]) = 2
  /\ IsMainRequest(t, sent[t][2])
  /\ sent[t][2].req.session = Nil
  /\ result[t].raised \in {"pending", "none", "Exception", "IOException"}
  /\ Done(t) =>
       LET fin == client_finish(cur[t], sent[t][2].req.url, recv[t][2])
       IN result[t] = [raised |-> fin.raised, message |-> fin.message, value |-> fin.value]
\* POST, expected status 200, path "card", body {name: "My Card"}, answered by 200
\* and {"id": 1, "name": "My Card"}
ExampleCall(t) ==
  /\ MainAnswered(t)
  /\ cur[t] = client(<<Kw("post"), Num(200), Str("card"), CardBody>>)
  /\ MainOutcome(t) = [kind |-> "response", data |-> Response(200, CardJson)]
ExampleBody == Map(<<Entry(Kw("id"), Num(1)), Entry(Kw("name"), Str("My Card"))>>)
\* a keyword or a string as its plain text, a number as its digits
Plain(x) ==
  CASE x.t = "kw" -> x.v
    [] x.t = "str" -> x.v
    [] x.t = "int" -> ToString(x.v)
\* the first i entries as key=value joined by "&"
RECURSIVE QueryString(_, _)
QueryString(es, i) ==
  IF i = 0 THEN ""
  ELSE QueryString(es, i - 1) \o (IF i > 1 THEN "&" ELSE "")
         \o Plain(es[i][1]) \o "=" \o Plain(es[i][2])
\* the token the thread's own authentication response carries
OwnToken(t) ==
  IF StatusOf(recv[t][1]) = Num(200) THEN Get(ParsedJson(BodyOf(recv[t][1])), Kw("id")) ELSE Nil
\* every main request carries its own call's token or none, every authentication
\* request carries none
TokensPerCall ==
  \A t \in Threads :
    \A i \in 1..Len(sent[t]) :
      IF sent[t][i].depth = 1
        THEN sent[t][i].req.session = (IF HasCreds(t) THEN OwnToken(t) ELSE Nil)
        ELSE sent[t][i].req.session = Nil

(***************************************************************************)
(* C1: when expectedStatus is supplied and the status of the response      *)
(* differs from it, the call fails with an error and returns no body; the  *)
(* message carries the upper-cased method, the full URL, the expected and  *)
(* the actual status, whether or not the body is JSON; with equal statuses *)
(* no such error is raised.  The sub-call of authenticate, which expects   *)
(* 200, fails the same way: authenticate catches it and prints.            *)
(***************************************************************************)
C1_StatusMismatchRaises ==
  \A t \in Threads :
    /\ MainAnswered(t) /\ StatusOf(MainOutcome(t)) # Nil /\ cur[t].expected_status # Nil =>
         IF StatusOf(MainOutcome(t)) # cur[t].expected_status
           THEN /\ result[t].raised = "Exception"
                /\ result[t].value = Nil
                /\ result[t].message =
                     MismatchMessage(cur[t].method, MainRequest(t).url,
                                     cur[t].expected_status, StatusOf(MainOutcome(t)))
           ELSE result[t].raised = "none"
    /\ AuthAnswered(t) /\ StatusOf(recv[t][1]) \notin {Nil, Num(200)} =>
         /\ toks[t][1] = Nil
         /\ Printed(t, AuthFailureLine(cur[t].credentials))

\* C1 witness: GET card/1 expecting 200 is answered 401 with a body that is not JSON
C1_Witness ==
  \E t \in Threads :
    /\ MainAnswered(t)
    /\ cur[t].expected_status = Num(200)
    /\ StatusOf(MainOutcome(t)) = Num(401)
    /\ BodyOf(MainOutcome(t)) = Truncated
    /\ result[t].raised = "Exception"
    /\ result[t].message = "GET http://localhost:3000/api/card/1 expected a status code of 200, got 401"

(***************************************************************************)
(* C2, as claimed: with well-formed credentials, whenever the              *)
(* authentication sub-call fails (non-200 status, transport error,         *)
(* malformed response) authenticate returns an absent token and logs the   *)
(* failure diagnostic instead of raising; the main request is still        *)
(* issued, without a session token, and the outcome of the call is that of *)
(* the main request alone.                                                 *)
(***************************************************************************)
C2_AsClaimed ==
  \A t \in Threads :
    AuthAnswered(t) /\ AuthFailed(recv[t][1]) =>
      AuthDegrades(t) /\ Printed(t, AuthFailureLine(cur[t].credentials))

(***************************************************************************)
(* C2, amended: as claimed, except that the failure diagnostic is printed  *)
(* exactly when the sub-call raised (a status other than 200, a transport  *)
(* error); a 200 response whose body is not JSON or has no id yields the   *)
(* absent token without it.                                                *)
(***************************************************************************)
C2_AuthFailureDegrades ==
  \A t \in Threads :
    AuthAnswered(t) /\ AuthFailed(recv[t][1]) =>
      /\ AuthDegrades(t)
      /\ Printed(t, AuthFailureLine(cur[t].credentials)) <=> StatusOf(recv[t][1]) # Num(200)

\* C2 witness: the session endpoint answers 200 with text that is not JSON; the main
\* request goes out without a token and its 200 response is returned
C2_Witness ==
  \E t \in Threads :
    /\ AuthAnswered(t)
    /\ StatusOf(recv[t][1]) = Num(200)
    /\ BodyOf(recv[t][1]) = NotJson
    /\ toks[t] = <<Nil>>
    /\ ~Printed(t, AuthFailureLine(cur[t].credentials))
    /\ Done(t)
    /\ sent[t][2].req.session = Nil
    /\ result[t].raised = "none"
    /\ result[t].value = ExampleBody

(***************************************************************************)
(* C3, as claimed: the example call returns {status: 200, body: {id: 1,    *)
(* name: "My Card"}}, the status together with the body.                   *)
(***************************************************************************)
C3_AsClaimed ==
  \A t \in Threads :
    ExampleCall(t) =>
      result[t].value = Map(<<Entry(Kw("status"), Num(200)), Entry(Kw("body"), ExampleBody)>>)

(***************************************************************************)
(* C3, amended: the example call returns the deserialized body alone,      *)
(* {id: 1, name: "My Card"}; the status is not part of the value and only  *)
(* reaches the printed line.                                               *)
(***************************************************************************)
C3_ReturnsBodyOnly ==
  \A t \in Threads :
    ExampleCall(t) =>
      /\ result[t].raised = "none"
      /\ result[t].value = ExampleBody
      /\ Get(result[t].value, Kw("status")) = Nil
      /\ out[t] = << <<Str("POST"), Str("http://localhost:3000/api/card"), Num(200)>> >>

\* C3 witness: the example call has returned
C3_Witness ==
  \E t \in Threads : ExampleCall(t) /\ Done(t) /\ result[t].value = ExampleBody

C6_InvalidMethodFailsFast ==
  \A t \in Threads :
    Called(t) /\ ~ValidMethod(t) => Rejected(t) /\ toks[t] = <<>> /\ out[t] = <<>>

\* C6 witness: PATCH with good credentials
C6_Witness ==
  \E t \in Threads :
    /\ cur[t] = client(<<GoodCreds, Kw("patch"), Num(200), Str("card")>>)
    /\ Rejected(t)

(***************************************************************************)
(* C7: a valid call issues exactly one main request of its method,         *)
(* whatever the outcome, and never retries.  With credentials exactly one  *)
(* authentication request (POST to "session", expecting 200, the           *)
(* credentials as body) is issued and answered before the main request;    *)
(* the sub-call has no credentials, so nothing nests further and the call  *)
(* ends after at most two requests.  (Second conjunct: every request       *)
(* issued is answered once, and only the frames still open wait.)          *)
(***************************************************************************)
C7_OneRequestNoRetry ==
  \A t \in Threads :
    ValidCall(t) =>
      /\ Len(stack[t]) <= 2
      /\ Len(recv[t]) + Len(stack[t]) = Len(sent[t]) + (IF Len(stack[t]) = 2 THEN 1 ELSE 0)
      /\ Done(t) <=> Len(recv[t]) = MainIdx(t)
      /\ IF HasCreds(t)
           THEN /\ Len(sent[t]) \in {1, 2}
                /\ IsAuthRequest(t, sent[t][1])
                /\ Len(stack[t]) = 2 <=> Len(sent[t]) = 1
                /\ Len(stack[t]) = 2 =>
                     /\ stack[t][2].a.credentials = Nil
                     /\ stack[t][2].a.expected_status = Num(200)
                /\ Len(sent[t]) = 2 => Len(recv[t]) >= 1 /\ IsMainRequest(t, sent[t][2])
           ELSE /\ Len(sent[t]) = 1
                /\ IsMainRequest(t, sent[t][1])

\* C7 witness: a call with credentials whose authentication request died in the
\* transport and whose main request was answered 401: two requests, no more
C7_Witness ==
  \E t \in Threads :
    /\ ValidCall(t) /\ HasCreds(t) /\ Done(t)
    /\ Len(sent[t]) = 2 /\ Len(recv[t]) = 2
    /\ recv[t][1].kind = "IOException"
    /\ recv[t][2].kind = "ExceptionInfo"
    /\ result[t].raised = "Exception"

(***************************************************************************)
(* C8: when request-fn throws, the error is caught and a response embedded *)
(* in it is used as the response of the call (checked against the expected *)
(* status, returned otherwise); when no response can be recovered from the *)
(* error, the transport failure reaches the caller and no value is         *)
(* returned.                                                               *)
(***************************************************************************)
C8_TransportErrorRecoveredOrPropagated ==
  \A t \in Threads :
    MainAnswered(t) /\ MainOutcome(t).kind \in {"ExceptionInfo", "IOException"} =>
      IF PayloadOf(MainOutcome(t)) # Nil
        THEN IF cur[t].expected_status \in {Nil, StatusOf(MainOutcome(t))}
               THEN /\ result[t].raised = "none"
                    /\ result[t].value = ParsedJson(BodyOf(MainOutcome(t)))
               ELSE result[t].raised = "Exception"
        ELSE result[t].raised \in {"ExceptionInfo", "IOException"}

(***************************************************************************)
(* C9, as claimed: authenticate requires email and password to be          *)
(* non-empty strings; credentials where either is missing, not a string or *)
(* the empty string are a contract violation raised to the caller of the   *)
(* enclosing call before any request is issued.                            *)
(***************************************************************************)
C9_AsClaimed ==
  \A t \in Threads :
    ( /\ Called(t) /\ ValidMethod(t) /\ HasCreds(t)
      /\ ~(Email(t).t = "str" /\ Email(t).v # "" /\ Password(t).t = "str" /\ Password(t).v # "") )
      => Rejected(t)

(***************************************************************************)
(* C9, amended: authenticate requires email and password to be strings.    *)
(* Credentials where either is missing or not a string are the contract    *)
(* violation, raised before any request; the empty string is accepted and  *)
(* sent to the session endpoint like any other.                            *)
(***************************************************************************)
C9_MalformedCredentialsRejected ==
  \A t \in Threads :
    Called(t) /\ ValidMethod(t) /\ HasCreds(t) =>
      IF Email(t).t = "str" /\ Password(t).t = "str"
        THEN /\ ~Rejected(t)
             /\ Len(sent[t]) >= 1
             /\ IsAuthRequest(t, sent[t][1])
        ELSE Rejected(t) /\ toks[t] = <<>>

\* C9 witness: DELETE with credentials that lack the password
C9_Witness ==
  \E t \in Threads :
    /\ ValidMethod(t)
    /\ cur[t].credentials = NoPasswordCreds
    /\ Rejected(t)

(***************************************************************************)
(* C10, as claimed: session tokens are never cached or shared.  In any     *)
(* interleaving the X-METABASE-SESSION of a main request is the token its  *)
(* own call's authentication sub-call returned (absent if that failed), a  *)
(* call without credentials carries none whatever was obtained before, the *)
(* authentication request carries none, and the authentication requests    *)
(* issued are as many as the calls made with credentials.                  *)
(***************************************************************************)
C10_AsClaimed ==
  /\ TokensPerCall
  /\ authRequests = credCalls

(***************************************************************************)
(* C10, amended: as claimed, the authentication requests being as many as  *)
(* the calls made with credentials that were not rejected as contract      *)
(* violations (invalid method, email or password not a string): a rejected *)
(* call issues none.                                                       *)
(***************************************************************************)
C10_TokensNeverShared ==
  /\ TokensPerCall
  /\ authRequests = credCalls - credRejected

\* C10 witness: after one rejected call, two calls with credentials are in flight at
\* once, each main request carrying the token of its own authentication
C10_Witness ==
  /\ stack["t1"] # <<>> /\ stack["t2"] # <<>>
  /\ Len(sent["t1"]) = 2 /\ Len(sent["t2"]) = 2
  /\ sent["t1"][2].req.session = Str("tokA")
  /\ sent["t2"][2].req.session = Num(1)
  /\ credCalls = 3 /\ credRejected = 1 /\ authRequests = 2

====
